---- MODULE Spec2Model ----
(***************************************************************************)
(* Model of api/profile/index.js: the profile endpoint.                    *)
(*                                                                         *)
(* Every `await` of the handler is a suspension point.  An invocation's pc *)
(* names the store operation it is awaiting; an action completes that      *)
(* operation (its effect on the store happens at that instant) and runs    *)
(* the synchronous code up to the next await or to the response.           *)
(*                                                                         *)
(* JavaScript null/undefined is Null == <<>>, a present value v is <<v>>.  *)
(* Header values, user ids and tokens are sequences of characters, so the  *)
(* empty string is a present value of length 0.                            *)
(***************************************************************************)
EXTENDS Integers, Sequences, FiniteSets, TLC

\* Number of handler invocations the runtime processes (concurrently).
NumInvocations == 2
\* Loads of the module in one process.
MaxLoads == 2
Invocations == 1..NumInvocations

Null == <<>>
Some(v) == <<v>>
Val(m) == m[1]

-----------------------------------------------------------------------------
(* String helpers, as String.prototype.startsWith / slice compute them.     *)

startsWith(s, prefix) ==
    /\ Len(s) >= Len(prefix)
    /\ SubSeq(s, 1, Len(prefix)) = prefix

slice(s, n) == SubSeq(s, n + 1, Len(s))

BearerPrefix == <<"B", "e", "a", "r", "e", "r", " ">>
BearerSliceAt == 7

\* A JavaScript string (or null/undefined) used as a condition.
EmptyString == <<>>
Truthy(m) == m # Null /\ Val(m) # EmptyString

\* line 69: req.headers["x-user-id"] || null
devUserIdOf(h) == IF Truthy(h) THEN h ELSE Null

\* line 70: req.headers["authorization"] || ""
authHeaderOf(h) == IF Truthy(h) THEN Val(h) ELSE EmptyString

\* Mutant: the scheme is compared without regard to case.
lower(c) == IF c = "B" THEN "b" ELSE c  \* the only capital of the alphabet in use
bearerOfAnyCase(authHeader) ==
    IF startsWith([i \in 1..Len(authHeader) |-> lower(authHeader[i])],
                  [i \in 1..Len(BearerPrefix) |-> lower(BearerPrefix[i])])
    THEN Some(slice(authHeader, BearerSliceAt)) ELSE Null

\* line 71: authHeader.startsWith("Bearer ") ? authHeader.slice(7) : null
bearerOf(authHeader) ==
    IF startsWith(authHeader, BearerPrefix)
    THEN Some(slice(authHeader, BearerSliceAt)) ELSE Null

\* Mutant: a request without credentials is sent down the bearer path.
AuthBranchNoElse(devUserId, bearer) ==
    IF Truthy(devUserId) THEN "lookupId" ELSE "lookupToken"

\* Mutant: the bearer branch is taken whenever the prefix matched (bearer !== null).
AuthBranchBearerNotNull(devUserId, bearer) ==
    IF Truthy(devUserId) THEN "lookupId"
    ELSE IF bearer # Null THEN "lookupToken"
    ELSE "missing"

\* Mutant: the Authorization header is looked at first.
AuthBranchBearerFirst(devUserId, bearer) ==
    IF Truthy(bearer) THEN "lookupToken"
    ELSE IF Truthy(devUserId) THEN "lookupId"
    ELSE "missing"

\* lines 74, 81, 83: which branch of the authentication the handler takes.
AuthBranch(devUserId, bearer) ==
    IF Truthy(devUserId) THEN "lookupId"
    ELSE IF Truthy(bearer) THEN "lookupToken"
    ELSE "missing"

-----------------------------------------------------------------------------
(* The store: two tables, as the statements of the source use them.         *)

\* Result of a statement: the store's new content, or an error.
Ok(v) == [val |-> v, err |-> Null]
Raise(msg) == [val |-> Null, err |-> Some([message |-> msg])]

\* Mutant: plain CREATE TABLE, which fails on an existing relation.
CreateTablePlain(tables, name, parent) ==
    IF parent # Null /\ Val(parent) \notin tables
    THEN Raise("relation does not exist")
    ELSE IF name \in tables THEN Raise("relation already exists")
    ELSE Ok(tables \cup {name})

\* lines 22-40: CREATE TABLE IF NOT EXISTS name (... REFERENCES parent ...)
CreateTableIfNotExists(tables, name, parent) ==
    IF name \in tables THEN Ok(tables)
    ELSE IF parent # Null /\ Val(parent) \notin tables
    THEN Raise("relation does not exist")
    ELSE Ok(tables \cup {name})

\* Mutant: profiles is created first, without its REFERENCES clause.
ensureSchemaChildFirst ==
    << [name |-> "profiles", parent |-> Null],
       [name |-> "users", parent |-> Null] >>

\* lines 22-40: the two statements of ensureSchema, in order.
ensureSchemaStatements ==
    << [name |-> "users", parent |-> Null],
       [name |-> "profiles", parent |-> Some("users")] >>

\* Mutant: the statement never finds a row.
SelectUserByIdNone(tables, users, userId) ==
    IF "users" \notin tables THEN {Raise("relation does not exist")}
    ELSE {Ok(Null)}

\* line 47-48: SELECT * FROM users WHERE id = $1 LIMIT 1; rows[0] || null
\* (the set of results the statement may give).
SelectUserById(tables, users, userId) ==
    IF "users" \notin tables THEN {Raise("relation does not exist")}
    ELSE LET rows == {u \in users : u.id = userId}
         IN  IF rows = {} THEN {Ok(Null)} ELSE {Ok(Some(u)) : u \in rows}

\* Mutant: the WHERE clause is dropped.
SelectUserByTokenAny(tables, users, token) ==
    IF "users" \notin tables THEN {Raise("relation does not exist")}
    ELSE IF users = {} THEN {Ok(Null)} ELSE {Ok(Some(u)) : u \in users}

\* Mutant: the WHERE clause also accepts the rows whose token is NULL.
SelectUserByTokenOrNull(tables, users, token) ==
    IF "users" \notin tables THEN {Raise("relation does not exist")}
    ELSE LET rows == {u \in users : u.token = Null \/ u.token = token}
         IN  IF rows = {} THEN {Ok(Null)} ELSE {Ok(Some(u)) : u \in rows}

\* line 52-53: SELECT * FROM users WHERE token = $1 LIMIT 1; rows[0] || null
\* (token is the parameter, a string or null; NULL equals nothing)
SelectUserByToken(tables, users, token) ==
    IF "users" \notin tables THEN {Raise("relation does not exist")}
    ELSE LET rows == {u \in users : u.token # Null /\ token # Null /\ u.token = token}
         IN  IF rows = {} THEN {Ok(Null)} ELSE {Ok(Some(u)) : u \in rows}

\* Mutant: the WHERE clause is dropped.
SelectProfileAny(tables, profiles, userId) ==
    IF "profiles" \notin tables THEN {Raise("relation does not exist")}
    ELSE IF profiles = {} THEN {Ok(Null)} ELSE {Ok(Some(r)) : r \in profiles}

\* line 57-58: SELECT * FROM profiles WHERE user_id = $1 LIMIT 1; rows[0] || null
SelectProfileForUser(tables, profiles, userId) ==
    IF "profiles" \notin tables THEN {Raise("relation does not exist")}
    ELSE LET rows == {r \in profiles : r.user_id = userId}
         IN  IF rows = {} THEN {Ok(Null)} ELSE {Ok(Some(r)) : r \in rows}

NewUser(userId, now) ==
    [id |-> userId, token |-> Null, email |-> Null, created_at |-> now]

\* Mutant: plain INSERT, which fails on a primary-key conflict.
InsertUserPlain(tables, users, userId, now) ==
    IF "users" \notin tables THEN Raise("relation does not exist")
    ELSE IF \E u \in users : u.id = userId
    THEN Raise("duplicate key value violates unique constraint")
    ELSE Ok(users \cup {NewUser(userId, now)})

\* Mutant: the statement adds nothing.
InsertUserNothing(tables, users, userId, now) ==
    IF "users" \notin tables THEN Raise("relation does not exist")
    ELSE Ok(users)

\* Mutant: ON CONFLICT (id) DO UPDATE SET created_at = now().
InsertUserUpsert(tables, users, userId, now) ==
    IF "users" \notin tables THEN Raise("relation does not exist")
    ELSE Ok({IF u.id = userId THEN [u EXCEPT !.created_at = now] ELSE u : u \in users}
            \cup (IF \E u \in users : u.id = userId THEN {}
                  ELSE {NewUser(userId, now)}))

\* line 78: INSERT INTO users(id, created_at) VALUES($1, now())
\*          ON CONFLICT DO NOTHING
InsertUser(tables, users, userId, now) ==
    IF "users" \notin tables THEN Raise("relation does not exist")
    ELSE IF \E u \in users : u.id = userId THEN Ok(users)
    ELSE Ok(users \cup {NewUser(userId, now)})

-----------------------------------------------------------------------------
(* Responses, lines 85, 89, 95-99, 102.                                     *)

MissingAuthMessage ==
    "Missing auth. Provide x-user-id (dev) or Authorization: Bearer <token>."
InvalidAuthMessage == "Invalid auth / user not found."

MissingAuth == [status |-> 401, body |-> [error |-> MissingAuthMessage]]
InvalidAuth == [status |-> 401, body |-> [error |-> InvalidAuthMessage]]

\* line 98: profile?.profile_type ?? null
profileTypeOf(profile) ==
    IF profile = Null THEN Null ELSE Val(profile).profile_type

OkResponse(user, profile) ==
    [status |-> 200,
     body |-> [user |-> user, profile |-> profile,
               profile_type |-> profileTypeOf(profile)]]

\* line 102: String(err?.message || err); String(new Error("")) is "Error".
errorDetails(e) == IF e.message # "" THEN e.message ELSE "Error"

ServerError(e) ==
    [status |-> 500, body |-> [error |-> "Server error", details |-> errorDetails(e)]]

-----------------------------------------------------------------------------
(* Inputs and initial store contents.                                       *)

U1 == <<"u", "1">>
U2 == <<"u", "2">>
TokA == <<"t", "1">>   \* the token of user u1, when u1 was created with one
TokB == <<"t", "2">>   \* the token of no user

Header == [xuid |-> Null, auth |-> Null]

Requests ==
    { Header,
      [Header EXCEPT !.xuid = Some(EmptyString)],
      [Header EXCEPT !.xuid = Some(U1)],
      [Header EXCEPT !.xuid = Some(U2)],
      [Header EXCEPT !.xuid = Some(U2), !.auth = Some(BearerPrefix \o TokA)],
      [Header EXCEPT !.auth = Some(BearerPrefix \o TokA)],
      [Header EXCEPT !.auth = Some(BearerPrefix \o TokB)],
      [Header EXCEPT !.auth = Some(BearerPrefix)],
      [Header EXCEPT !.auth = Some(<<"b", "e", "a", "r", "e", "r", " ">> \o TokA)],
      [Header EXCEPT !.auth = Some(<<"B", "e", "a", "r", "e", "r">> \o TokA)],
      [Header EXCEPT !.auth = Some(EmptyString)] }

\* Rows created out of band before the invocations start.
SeedUsers ==
    { [id |-> U1, token |-> Some(TokA), email |-> Null, created_at |-> 0],
      [id |-> U2, token |-> Null, email |-> Null, created_at |-> 0] }

SeedProfiles ==
    { [user_id |-> U1, profile_type |-> Some("musician")],
      [user_id |-> U2, profile_type |-> Null] }

\* The store before the first invocation: no table yet, a bootstrap that
\* stopped after its first statement, or both tables with rows that respect
\* the foreign key of profiles.
InitialStores ==
    { [tables |-> {}, users |-> {}, profiles |-> {}],
      [tables |-> {"users"}, users |-> {}, profiles |-> {}] }
    \cup
    { s \in [tables : {{"users", "profiles"}}, users : SUBSET SeedUsers,
              profiles : SUBSET SeedProfiles] :
        \A q \in s.profiles : \E u \in s.users : u.id = q.user_id }

\* Failures of the store that no statement of the program causes.
FailureMessages == {"connection terminated unexpectedly"}

-----------------------------------------------------------------------------
(* State.                                                                   *)

VARIABLES
    tables,     \* names of the relations that exist in the store
    users,      \* rows of users
    profiles,   \* rows of profiles
    clock,      \* the store's now()
    inv,        \* the frame of each invocation of handler
    globalPool, \* global.__pgPool: Null, or the Pool object it holds
    pool,       \* the binding pool of each loaded instance of the module
    poolsCreated \* the number of Pool objects constructed

vars == <<tables, users, profiles, clock, inv, globalPool, pool, poolsCreated>>

poolVars == <<globalPool, pool, poolsCreated>>

\* The frame of an invocation that has not started.
\*   pc        the operation awaited: "idle", the name of a store operation, "done"
\*   req       req.headers, once the handler has read them (line 69)
\*   user      the local variable user
\*   held      clients acquired by pool.connect() and not yet released
\*   released  calls of client.release()
\*   res       the responses sent on res, in order
\*   ops       the store operations issued, in order
\*   failure   the error thrown, with the position in ops of the operation that threw
\*   startRow  the row of the request's x-user-id when the headers were read
\*   wrote     whether a statement of this invocation changed the store
\*   pool      the Pool object bound to pool in the module instance that runs it
Idle ==
    [pc |-> "idle", req |-> Null, user |-> Null, held |-> 0, released |-> 0,
     res |-> <<>>, ops |-> <<>>, failure |-> Null, startRow |-> Null,
     wrote |-> FALSE, pool |-> Null]

\* Mutant: every load of the module constructs a Pool.
newPoolAlways(g) == TRUE

\* line 13: !global.__pgPool
newPoolNeeded(g) == g = Null

\* The state once the module has been loaded, against any initial store.
Init ==
    /\ \E s \in InitialStores :
          /\ tables = s.tables
          /\ users = s.users
          /\ profiles = s.profiles
    /\ clock = 1
    /\ inv = [p \in Invocations |-> Idle]
    /\ globalPool = Some(1)
    /\ pool = <<1>>
    /\ poolsCreated = 1

-----------------------------------------------------------------------------
(* Control flow of one invocation.                                          *)

StoreOps ==
    {"connect", "createUsers", "createProfiles", "lookupId", "insert",
     "refetch", "lookupToken", "fetchProfile"}

\* The invocation issues the store operation op and awaits it.
Awaiting(f, op) == [f EXCEPT !.pc = op, !.ops = Append(@, op)]

\* Mutant: the response is sent without `return`; the invocation goes on.
RespondedNoReturn(f, r) == [f EXCEPT !.res = Append(@, r)]

\* return res.status(..).json(..)
Responded(f, r) == [f EXCEPT !.pc = "done", !.res = Append(@, r)]

\* lines 21-41: the operations awaited inside try { } of ensureSchema.
InTry(op) == op \in {"createUsers", "createProfiles"}

\* Mutant: the client is released at the end of try { }, not in finally { }.
releasesOnSuccessOnly(threw) == ~threw

\* lines 41-43: finally { client.release() } runs however try { } ends.
finallyReleases(threw) == TRUE

Finally(f, threw) ==
    IF finallyReleases(threw)
    THEN [f EXCEPT !.held = @ - 1, !.released = @ + 1]
    ELSE f

\* Mutant: the failed operation is issued again.
AfterFailureRetry(op) == op

\* lines 62, 100: every await of the handler is inside its try { }, so an
\* error thrown by any of them transfers control to catch (err).
AfterFailure(op) == "catch"

\* Mutant: no try { } encloses the await; the error leaves the handler and
\* the invocation ends without a response.
ThrownUncaught(f, e) ==
    [f EXCEPT !.pc = "done",
              !.failure = Some([error |-> e, at |-> Len(f.ops)])]

\* The awaited operation threw e.
Thrown(f, e) ==
    LET g == [(IF InTry(f.pc) THEN Finally(f, TRUE) ELSE f)
                 EXCEPT !.failure = Some([error |-> e, at |-> Len(f.ops)])]
        t == AfterFailure(f.pc)
    IN  IF t = "catch" THEN Responded(g, ServerError(e)) ELSE Awaiting(g, t)

RowOf(rows, userId) ==
    IF userId # Null /\ \E u \in rows : u.id = Val(userId)
    THEN Some(CHOOSE u \in rows : u.id = Val(userId))
    ELSE Null

\* The headers of the request, which the handler first reads at lines 69-70.
ReadHeaders(f, h, rows) ==
    [f EXCEPT !.req = Some(h), !.startRow = RowOf(rows, devUserIdOf(h.xuid))]

\* lines 69-86, run when ensureSchema has returned.
Authenticate(f) ==
    LET devUserId == devUserIdOf(Val(f.req).xuid)
        bearer == bearerOf(authHeaderOf(Val(f.req).auth))
        branch == AuthBranch(devUserId, bearer)
    IN  IF branch = "missing" THEN Responded(f, MissingAuth)
        ELSE Awaiting(f, branch)

\* Mutant: the 401 body tells the caller which credential was not found.
ResolvedEchoingCredential(f, user) ==
    IF user = Null
    THEN Responded([f EXCEPT !.user = user],
                   [status |-> 401,
                    body |-> [error |-> InvalidAuthMessage, credential |-> f.req]])
    ELSE Awaiting([f EXCEPT !.user = user], "fetchProfile")

\* lines 88-93, run when user has its final value.
Resolved(f, user) ==
    IF user = Null THEN Responded([f EXCEPT !.user = user], InvalidAuth)
    ELSE Awaiting([f EXCEPT !.user = user], "fetchProfile")

Wrote(f, changed) == [f EXCEPT !.wrote = @ \/ changed]

-----------------------------------------------------------------------------
(* Actions.                                                                 *)

\* lines 61-64, 20: handler is invoked; it calls ensureSchema, which awaits
\* pool.connect().  (req.headers is first read at line 69: see CreateProfiles.)
Start(p) ==
    /\ inv[p].pc = "idle"
    /\ \E m \in 1..Len(pool) :
          inv' = [inv EXCEPT ![p] =
                     [Awaiting(@, "connect") EXCEPT !.pool = Some(pool[m])]]
    /\ UNCHANGED <<tables, users, profiles, clock, poolVars>>

\* line 20-22: the client is acquired; the first statement is issued.
Connect(p) ==
    /\ inv[p].pc = "connect"
    /\ inv' = [inv EXCEPT ![p] = Awaiting([@ EXCEPT !.held = @ + 1], "createUsers")]
    /\ UNCHANGED <<tables, users, profiles, clock, poolVars>>

\* lines 22-31: the first statement, CREATE TABLE IF NOT EXISTS users, completes.
CreateUsers(p) ==
    /\ inv[p].pc = "createUsers"
    /\ LET r == CreateTableIfNotExists(tables, ensureSchemaStatements[1].name,
                                        ensureSchemaStatements[1].parent)
       IN  IF r.err # Null
           THEN /\ inv' = [inv EXCEPT ![p] = Thrown(@, Val(r.err))]
                /\ UNCHANGED tables
           ELSE /\ tables' = r.val
                /\ inv' = [inv EXCEPT ![p] =
                              Awaiting(Wrote(@, r.val # tables), "createProfiles")]
    /\ UNCHANGED <<users, profiles, clock, poolVars>>

\* lines 31-44, 69-86: the second statement, on profiles, completes, the
\* client is released, ensureSchema returns and the handler reads the headers
\* of its request (any of Requests) and authenticates.
CreateProfiles(p) ==
    /\ inv[p].pc = "createProfiles"
    /\ LET r == CreateTableIfNotExists(tables, ensureSchemaStatements[2].name,
                                        ensureSchemaStatements[2].parent)
       IN  IF r.err # Null
           THEN /\ inv' = [inv EXCEPT ![p] = Thrown(@, Val(r.err))]
                /\ UNCHANGED tables
           ELSE /\ tables' = r.val
                /\ \E h \in Requests :
                      inv' = [inv EXCEPT ![p] =
                                 Authenticate(
                                     ReadHeaders(Finally(Wrote(@, r.val # tables), FALSE),
                                                 h, users))]
    /\ UNCHANGED <<users, profiles, clock, poolVars>>

\* lines 75-78, 88: getUserById(devUserId) completes.
LookupId(p) ==
    /\ inv[p].pc = "lookupId"
    /\ \E r \in SelectUserById(tables, users, Val(devUserIdOf(Val(inv[p].req).xuid))) :
          inv' = [inv EXCEPT ![p] =
                     IF r.err # Null THEN Thrown(@, Val(r.err))
                     ELSE IF r.val = Null THEN Awaiting(@, "insert")
                     ELSE Resolved(@, r.val)]
    /\ UNCHANGED <<tables, users, profiles, clock, poolVars>>

\* lines 78-79: the INSERT completes; the re-fetch is issued.
Insert(p) ==
    /\ inv[p].pc = "insert"
    /\ LET r == InsertUser(tables, users, Val(devUserIdOf(Val(inv[p].req).xuid)), clock)
       IN  IF r.err # Null
           THEN /\ inv' = [inv EXCEPT ![p] = Thrown(@, Val(r.err))]
                /\ UNCHANGED <<users, clock>>
           ELSE /\ users' = r.val
                /\ clock' = clock + 1
                /\ inv' = [inv EXCEPT ![p] = Awaiting(Wrote(@, r.val # users), "refetch")]
    /\ UNCHANGED <<tables, profiles, poolVars>>

\* lines 79, 88-93: the second getUserById(devUserId) completes.
Refetch(p) ==
    /\ inv[p].pc = "refetch"
    /\ \E r \in SelectUserById(tables, users, Val(devUserIdOf(Val(inv[p].req).xuid))) :
          inv' = [inv EXCEPT ![p] =
                     IF r.err # Null THEN Thrown(@, Val(r.err))
                     ELSE Resolved(@, r.val)]
    /\ UNCHANGED <<tables, users, profiles, clock, poolVars>>

\* lines 82, 88-93: getUserByToken(bearer) completes.
LookupToken(p) ==
    /\ inv[p].pc = "lookupToken"
    /\ \E r \in SelectUserByToken(tables, users,
                                  bearerOf(authHeaderOf(Val(inv[p].req).auth))) :
          inv' = [inv EXCEPT ![p] =
                     IF r.err # Null THEN Thrown(@, Val(r.err))
                     ELSE Resolved(@, r.val)]
    /\ UNCHANGED <<tables, users, profiles, clock, poolVars>>

\* lines 93-99: getProfileForUser(user.id) completes; the handler responds.
FetchProfile(p) ==
    /\ inv[p].pc = "fetchProfile"
    /\ \E r \in SelectProfileForUser(tables, profiles, Val(inv[p].user).id) :
          inv' = [inv EXCEPT ![p] =
                     IF r.err # Null THEN Thrown(@, Val(r.err))
                     ELSE Responded(@, OkResponse(inv[p].user, r.val))]
    /\ UNCHANGED <<tables, users, profiles, clock, poolVars>>

\* The awaited store operation fails (connection lost, store unavailable):
\* the await throws, with no effect on the store.
Fail(p) ==
    /\ inv[p].pc \in StoreOps
    /\ \E m \in FailureMessages :
          inv' = [inv EXCEPT ![p] = Thrown(@, [message |-> m])]
    /\ UNCHANGED <<tables, users, profiles, clock, poolVars>>

\* lines 12-16: the module is loaded (again) in the same process.  The body
\* is synchronous, so a load is one step: a Pool is constructed and stored in
\* global.__pgPool when none is there, and pool is bound to global.__pgPool.
LoadModule ==
    /\ Len(pool) < MaxLoads
    /\ LET construct == newPoolNeeded(globalPool)
           g == IF construct THEN Some(poolsCreated + 1) ELSE globalPool
       IN  /\ globalPool' = g
           /\ pool' = Append(pool, Val(g))
           /\ poolsCreated' = IF construct THEN poolsCreated + 1 ELSE poolsCreated
    /\ UNCHANGED <<tables, users, profiles, clock, inv>>

Next ==
    \E p \in Invocations :
        \/ Start(p)
        \/ Connect(p)
        \/ CreateUsers(p)
        \/ CreateProfiles(p)
        \/ LookupId(p)
        \/ Insert(p)
        \/ Refetch(p)
        \/ LookupToken(p)
        \/ FetchProfile(p)
        \/ Fail(p)

Spec == Init /\ [][Next]_vars

\* The module has been loaded against a store in which the schema exists and
\* one user, with a token and a profile, is known.
InitLive ==
    /\ tables = {"users", "profiles"}
    /\ users = {u \in SeedUsers : u.id = U1}
    /\ profiles = {q \in SeedProfiles : q.user_id = U1}
    /\ clock = 1
    /\ inv = [p \in Invocations |-> Idle]
    /\ globalPool = Some(1)
    /\ pool = <<1>>
    /\ poolsCreated = 1

\* An awaited store operation of invocation p settles: it completes, or it
\* fails.
Settle(p) ==
    \/ Connect(p)
    \/ CreateUsers(p)
    \/ CreateProfiles(p)
    \/ LookupId(p)
    \/ Insert(p)
    \/ Refetch(p)
    \/ LookupToken(p)
    \/ FetchProfile(p)
    \/ Fail(p)

\* Every store operation an invocation awaits eventually settles and the
\* event loop then resumes the invocation.  Requests arrive when callers send
\* them: Start is not fair.
SpecLive ==
    InitLive /\ [][Next]_vars /\ \A p \in Invocations : WF_vars(Settle(p))

\* The process from its start, before the module is first loaded, against a
\* fresh database.
InitPool ==
    /\ tables = {}
    /\ users = {}
    /\ profiles = {}
    /\ clock = 1
    /\ inv = [p \in Invocations |-> Idle]
    /\ globalPool = Null
    /\ pool = <<>>
    /\ poolsCreated = 0

\* Loads of the module interleave with the invocations of the handlers of
\* the instances already loaded.
NextPool ==
    \/ LoadModule
    \/ Next

SpecPool == InitPool /\ [][NextPool]_vars

-----------------------------------------------------------------------------
(* Vocabulary of the properties.                                            *)

HasRequest(p) == inv[p].req # Null
XUserId(p) == Val(inv[p].req).xuid
Authorization(p) == Val(inv[p].req).auth
Done(p) == inv[p].pc = "done"
Failed(p) == inv[p].failure # Null
FailureMessage(p) == Val(inv[p].failure).error.message
FailedOp(p) == inv[p].ops[Val(inv[p].failure).at]
Issued(p, op) == \E i \in DOMAIN inv[p].ops : inv[p].ops[i] = op
BootstrapOps == <<"connect", "createUsers", "createProfiles">>

\* The request names a user by a non-empty x-user-id header.
DevRequest(p) ==
    /\ HasRequest(p)
    /\ XUserId(p) # Null
    /\ Len(Val(XUserId(p))) > 0

RowsWithId(userId) == {u \in users : u.id = userId}

-----------------------------------------------------------------------------
(* C1: provisioning is race-safe.  For invocations that carry the           *)
(* x-user-id U of no row, under every interleaving of their lookup, insert *)
(* and re-fetch: users never holds two rows with the same id; no invocation *)
(* fails with an error of the store other than a failure of the store       *)
(* itself (so never with a duplicate-row error); once an invocation's       *)
(* INSERT has completed, users holds exactly one row with id U; and every   *)
(* such invocation that ends without a store failure ends with that row.    *)
C1_RaceSafeProvisioning ==
    /\ \A u, v \in users : u.id = v.id => u = v
    /\ \A p \in Invocations :
          Failed(p) => FailureMessage(p) \in FailureMessages
    /\ \A p \in Invocations :
          (DevRequest(p) /\ inv[p].startRow = Null) =>
              /\ inv[p].pc \in {"refetch", "fetchProfile", "done"}
                    /\ ~(Failed(p) /\ FailedOp(p) \in {"lookupId", "insert"})
                 => Cardinality(RowsWithId(Val(XUserId(p)))) = 1
              /\ (Done(p) /\ ~Failed(p)) =>
                    /\ Len(inv[p].res) = 1
                    /\ inv[p].res[1].status = 200
                    /\ inv[p].res[1].body.user \in
                           {Some(u) : u \in RowsWithId(Val(XUserId(p)))}

\* Two invocations raced to provision the same unseen id: both found no row,
\* both issued the INSERT, and both answered 200.
C1_Witness ==
    \E p, q \in Invocations :
        /\ p # q
        /\ DevRequest(p) /\ DevRequest(q)
        /\ XUserId(p) = XUserId(q)
        /\ inv[p].startRow = Null /\ inv[q].startRow = Null
        /\ Issued(p, "insert") /\ Issued(q, "insert")
        /\ Done(p) /\ Done(q)
        /\ ~Failed(p) /\ ~Failed(q)
        /\ inv[p].res[1].status = 200 /\ inv[q].res[1].status = 200

-----------------------------------------------------------------------------
(* C2 as stated: a request that carries neither an x-user-id header nor an  *)
(* Authorization header is answered 401 with the missing-credentials        *)
(* message, and no statement of its invocation changes the store.           *)
C2_NoCredentialsNoWrite ==
    \A p \in Invocations :
        (HasRequest(p) /\ XUserId(p) = Null /\ Authorization(p) = Null) =>
            /\ Done(p)
            /\ inv[p].res = <<MissingAuth>>
            /\ ~inv[p].wrote

(* C2, amended: such a request, once the schema bootstrap has succeeded, is *)
(* answered 401 with the missing-credentials message, and its invocation    *)
(* issues no store operation besides the three of the bootstrap: it writes  *)
(* no row, and the only change it can make to the store is the bootstrap's  *)
(* creation of a table that does not exist yet.                             *)
C2_NoCredentialsNoRowWrite ==
    \A p \in Invocations :
        (HasRequest(p) /\ XUserId(p) = Null /\ Authorization(p) = Null) =>
            /\ Done(p)
            /\ inv[p].res = <<MissingAuth>>
            /\ inv[p].ops = BootstrapOps

\* A request without credentials was answered 401 by an invocation whose
\* bootstrap created a table.
C2_Witness ==
    \E p \in Invocations :
        /\ HasRequest(p) /\ XUserId(p) = Null /\ Authorization(p) = Null
        /\ Done(p)
        /\ inv[p].res = <<MissingAuth>>
        /\ inv[p].wrote

-----------------------------------------------------------------------------
(* C3: when the row of the request's x-user-id U exists already, the        *)
(* invocation issues no INSERT (the only statement that changes the rows of *)
(* users), the row is still the one row of users with id U, as it was, and  *)
(* the user of a 200 response is that row, created_at included.             *)
C3_ExistingUserUnchanged ==
    \A p \in Invocations :
        (DevRequest(p) /\ inv[p].startRow # Null) =>
            /\ ~Issued(p, "insert")
            /\ RowsWithId(Val(XUserId(p))) = {Val(inv[p].startRow)}
            /\ inv[p].user \in {Null, inv[p].startRow}
            /\ \A i \in DOMAIN inv[p].res :
                  inv[p].res[i].status = 200 =>
                      inv[p].res[i].body.user = inv[p].startRow

\* A request for an existing user was answered 200 with a row created before.
C3_Witness ==
    \E p \in Invocations :
        /\ DevRequest(p)
        /\ inv[p].startRow # Null
        /\ Done(p)
        /\ inv[p].res[1].status = 200
        /\ inv[p].res[1].body.user = inv[p].startRow
        /\ Val(inv[p].startRow).created_at < clock

-----------------------------------------------------------------------------
\* The request goes down the bearer path with the token t: no usable
\* x-user-id, and an Authorization header made of "Bearer " and a non-empty t.
BearerRequest(p, t) ==
    /\ HasRequest(p)
    /\ ~DevRequest(p)
    /\ Authorization(p) = Some(BearerPrefix \o t)
    /\ Len(t) > 0

RowsWithToken(t) == {u \in users : u.token = Some(t)}

(* C4: a request on the bearer path whose token T is the token of no row is *)
(* answered 401 invalid-credentials, unless an operation of the store       *)
(* fails, and its invocation resolves no user and never issues the INSERT.  *)
C4_UnknownBearerRejected ==
    \A p \in Invocations : \A t \in {TokA, TokB} :
        (BearerRequest(p, t) /\ RowsWithToken(t) = {}) =>
            /\ ~Issued(p, "insert")
            /\ inv[p].user = Null
            /\ ~Failed(p) => (inv[p].pc = "lookupToken" \/ inv[p].res = <<InvalidAuth>>)
            /\ (Done(p) /\ ~Failed(p)) => inv[p].res = <<InvalidAuth>>

\* A bearer token of no row was rejected while users held rows.
C4_Witness ==
    \E p \in Invocations :
        /\ BearerRequest(p, TokB)
        /\ RowsWithToken(TokB) = {}
        /\ users # {}
        /\ Done(p)
        /\ inv[p].res = <<InvalidAuth>>

-----------------------------------------------------------------------------
(* C5: for a resolved user whose profile fetch does not fail, the response  *)
(* is 200 with the user, with the row of profiles whose user_id is the      *)
(* user's id (or null when there is none) and with that row's profile_type  *)
(* (null when there is no row); a missing profile is not an error.          *)
C5_ProfileEchoed ==
    \A p \in Invocations :
        (inv[p].user # Null /\ Done(p) /\ ~Failed(p)) =>
            /\ Len(inv[p].res) = 1
            /\ inv[p].res[1].status = 200
            /\ inv[p].res[1].body.user = inv[p].user
            /\ LET body == inv[p].res[1].body
                   rows == {r \in profiles : r.user_id = Val(inv[p].user).id}
               IN  IF rows = {}
                   THEN body.profile = Null /\ body.profile_type = Null
                   ELSE /\ body.profile \in {Some(r) : r \in rows}
                        /\ body.profile_type = Val(body.profile).profile_type

\* One response echoed a musician's profile while another user, who has no
\* profile, was answered 200 with nulls.
C5_Witness ==
    \E p, q \in Invocations :
        /\ Done(p) /\ Done(q)
        /\ inv[p].user # Null /\ inv[q].user # Null
        /\ inv[p].res[1].status = 200 /\ inv[q].res[1].status = 200
        /\ inv[p].res[1].body.profile_type = Some("musician")
        /\ inv[p].res[1].body.profile # Null
        /\ inv[q].res[1].body.profile = Null
        /\ inv[q].res[1].body.profile_type = Null
        /\ profiles # {}

-----------------------------------------------------------------------------
(* C6: the statements of ensureSchema never raise an error, whether the     *)
(* tables exist or not and however the statements of bootstraps run in      *)
(* succession or interleave: a bootstrap fails only when the store itself   *)
(* fails.                                                                   *)
C6_BootstrapNeverRaises ==
    \A p \in Invocations :
        (Failed(p) /\ FailedOp(p) \in {"connect", "createUsers", "createProfiles"}) =>
            FailureMessage(p) \in FailureMessages

\* Two bootstraps interleaved on a store without tables: each created one of
\* the two tables, and both returned.
C6_Witness ==
    \E p, q \in Invocations :
        /\ p # q
        /\ HasRequest(p) /\ HasRequest(q)
        /\ inv[p].wrote /\ inv[q].wrote
        /\ ~Issued(p, "insert") /\ ~Issued(q, "insert")

-----------------------------------------------------------------------------
(* C7: ensureSchema acquires one client and releases it exactly once on     *)
(* every way out: a client is held only while one of the two statements is  *)
(* awaited, so no later step of the handler runs with it, and an invocation *)
(* that has left ensureSchema, normally or by a failure of either           *)
(* statement, holds none and has released once.                             *)
C7_ClientReleased ==
    \A p \in Invocations :
        /\ inv[p].held = (IF InTry(inv[p].pc) THEN 1 ELSE 0)
        /\ inv[p].released =
              (IF Issued(p, "createUsers") /\ ~InTry(inv[p].pc) THEN 1 ELSE 0)

\* A bootstrap failed on its second statement and the client was released.
C7_Witness ==
    \E p \in Invocations :
        /\ Failed(p)
        /\ FailedOp(p) = "createProfiles"
        /\ Done(p)
        /\ inv[p].held = 0
        /\ inv[p].released = 1

-----------------------------------------------------------------------------
(* C8: a failure of any operation of an invocation is answered 500 with     *)
(* {error: "Server error", details: the failure's text}; that is the one    *)
(* response, the failed operation is the last the invocation issues (no     *)
(* retry, no further operation), and the invocation is over.                *)
C8_FailuresBecome500 ==
    \A p \in Invocations :
        Failed(p) =>
            /\ Done(p)
            /\ Len(inv[p].res) = 1
            /\ inv[p].res[1].status = 500
            /\ inv[p].res[1].body.error = "Server error"
            /\ inv[p].res[1].body.details =
                  (IF FailureMessage(p) = "" THEN "Error" ELSE FailureMessage(p))
            /\ Val(inv[p].failure).at = Len(inv[p].ops)

\* The INSERT of an invocation failed and the invocation answered 500.
C8_Witness ==
    \E p \in Invocations :
        /\ Failed(p)
        /\ FailedOp(p) = "insert"
        /\ FailureMessage(p) # ""
        /\ inv[p].res[1].status = 500

-----------------------------------------------------------------------------
\* The Authorization header is present and its first seven characters are
\* not "Bearer ".
MalformedAuthorization(p) ==
    /\ HasRequest(p)
    /\ Authorization(p) # Null
    /\ \E i \in 1..7 :
          \/ Len(Val(Authorization(p))) < i
          \/ Val(Authorization(p))[i] # BearerPrefix[i]

(* C9: a request without x-user-id whose Authorization header does not      *)
(* begin with "Bearer " is handled as a request without the header is: once *)
(* the bootstrap has succeeded it is answered 401 with the                  *)
(* missing-credentials message, not 500, and no lookup by token (no store   *)
(* operation after the bootstrap) is issued.                                *)
C9_MalformedAuthorizationIsMissing ==
    \A p \in Invocations :
        (MalformedAuthorization(p) /\ XUserId(p) = Null) =>
            /\ Done(p)
            /\ inv[p].res = <<MissingAuth>>
            /\ ~Issued(p, "lookupToken")
            /\ inv[p].ops = BootstrapOps
            /\ inv[p].user = Null

\* Requests with "bearer t1" and with "Bearert1" were both answered as
\* requests without credentials.
C9_Witness ==
    \E p, q \in Invocations :
        /\ MalformedAuthorization(p) /\ MalformedAuthorization(q)
        /\ XUserId(p) = Null /\ XUserId(q) = Null
        /\ Len(Val(Authorization(p))) > 0 /\ Val(Authorization(p))[1] = "b"
        /\ Len(Val(Authorization(q))) > 6 /\ Val(Authorization(q))[7] # " "
        /\ inv[p].res = <<MissingAuth>>
        /\ inv[q].res = <<MissingAuth>>

-----------------------------------------------------------------------------
(* C10: the dev-mode path always yields a user.  An invocation whose        *)
(* request has a non-empty x-user-id, of a known user or not, and in which  *)
(* no operation of the store fails, never answers 401: it resolves a user   *)
(* and answers 200, however it interleaves with other invocations.          *)
C10_DevModeYieldsUser ==
    \A p \in Invocations :
        (DevRequest(p) /\ ~Failed(p)) =>
            /\ \A i \in DOMAIN inv[p].res : inv[p].res[i].status = 200
            /\ Done(p) => Len(inv[p].res) = 1 /\ inv[p].user # Null
            /\ inv[p].pc = "fetchProfile" => inv[p].user # Null

\* An unseen id was answered 200 while another invocation also added a row.
C10_Witness ==
    \E p, q \in Invocations :
        /\ p # q
        /\ DevRequest(p) /\ DevRequest(q)
        /\ inv[p].startRow = Null
        /\ XUserId(p) # XUserId(q)
        /\ Issued(p, "insert") /\ Issued(q, "insert")
        /\ Done(p) /\ ~Failed(p)
        /\ inv[p].res[1].status = 200

-----------------------------------------------------------------------------
\* The request has no usable x-user-id and its Authorization header begins
\* with the seven characters "Bearer "; Remainder is what follows them.
BeginsWithBearer(p) ==
    /\ HasRequest(p)
    /\ ~DevRequest(p)
    /\ Authorization(p) # Null
    /\ \A i \in 1..7 :
          /\ Len(Val(Authorization(p))) >= i
          /\ Val(Authorization(p))[i] = BearerPrefix[i]

Remainder(p) ==
    [i \in 1..(Len(Val(Authorization(p))) - 7) |-> Val(Authorization(p))[i + 7]]

(* C11 as stated: every request without a dev identifier whose              *)
(* Authorization header begins with "Bearer " is resolved by a lookup of    *)
(* the remainder as the token, the empty remainder included, and when no    *)
(* user matches the response is 401 invalid-credentials, not                *)
(* missing-credentials.                                                     *)
C11_EveryRemainderLookedUp ==
    \A p \in Invocations :
        BeginsWithBearer(p) =>
            /\ Issued(p, "lookupToken")
            /\ (Done(p) /\ ~Failed(p) /\ inv[p].user = Null) =>
                  inv[p].res = <<InvalidAuth>>

(* C11, amended: such a request with a non-empty remainder is resolved by a *)
(* lookup of the user whose token equals the remainder exactly, and when no *)
(* user matches (and no store operation fails) the response is 401          *)
(* invalid-credentials; with an empty remainder no lookup is issued and the *)
(* response is 401 missing-credentials.                                     *)
C11_NonEmptyRemainderLookedUp ==
    \A p \in Invocations :
        BeginsWithBearer(p) =>
            IF Len(Remainder(p)) > 0
            THEN /\ Issued(p, "lookupToken")
                 /\ ~Issued(p, "lookupId")
                 /\ inv[p].user # Null => Val(inv[p].user).token = Some(Remainder(p))
                 /\ (Done(p) /\ ~Failed(p) /\ RowsWithToken(Remainder(p)) # {}) =>
                       inv[p].user # Null
                 /\ (Done(p) /\ ~Failed(p) /\ inv[p].user = Null) =>
                       inv[p].res = <<InvalidAuth>>
            ELSE /\ Done(p)
                 /\ inv[p].ops = BootstrapOps
                 /\ inv[p].res = <<MissingAuth>>

\* "Bearer " alone was answered missing-credentials, and "Bearer t2", the
\* token of no user, invalid-credentials.
C11_Witness ==
    \E p, q \in Invocations :
        /\ BeginsWithBearer(p) /\ BeginsWithBearer(q)
        /\ Len(Remainder(p)) = 0
        /\ inv[p].res = <<MissingAuth>>
        /\ Remainder(q) = TokB
        /\ inv[q].res = <<InvalidAuth>>

-----------------------------------------------------------------------------
(* C12: no step of any invocation changes profiles, removes a row of users  *)
(* or changes one (created_at included): the rows of users only grow, and   *)
(* a row that is added has the x-user-id of the request of the invocation   *)
(* whose INSERT adds it.                                                    *)
C12_OnlyAddsRequestedUsers ==
    [][ /\ profiles' = profiles
        /\ users \subseteq users'
        /\ \A r \in users' \ users :
              \E p \in Invocations :
                  /\ inv[p].pc = "insert"
                  /\ inv'[p].pc # "insert"
                  /\ DevRequest(p)
                  /\ r.id = Val(XUserId(p)) ]_vars

\* A row was added, by an INSERT that raced with another for the same id,
\* next to a row and a profile created out of band.
C12_Witness ==
    /\ \E u, v \in users : u.created_at = 0 /\ v.created_at > 0
    /\ profiles # {}
    /\ \A p \in Invocations : Issued(p, "insert") /\ Done(p)

-----------------------------------------------------------------------------
\* The request supplies a credential that the handler takes as one: a
\* non-empty x-user-id, or "Bearer " followed by a non-empty token.
SuppliesCredential(p) ==
    \/ DevRequest(p)
    \/ BeginsWithBearer(p) /\ Len(Remainder(p)) > 0

\* The invocation ended, without a failure of the store, with no user.
Unresolved(p) == Done(p) /\ ~Failed(p) /\ inv[p].user = Null

\* The request carries a credential header with some content: an x-user-id
\* or an Authorization header that is not empty.
SuppliesCredentialHeader(p) ==
    /\ HasRequest(p)
    /\ \/ XUserId(p) # Null /\ Len(Val(XUserId(p))) > 0
       \/ Authorization(p) # Null /\ Len(Val(Authorization(p))) > 0

(* C13 as stated: any two requests that supply a credential header and end  *)
(* with no resolved user receive the same status 401 and the same body,     *)
(* whether what they supplied was malformed or well-formed but unmatched.   *)
C13_AnyHeaderSameResponse ==
    \A p, q \in Invocations :
        (SuppliesCredentialHeader(p) /\ Unresolved(p)
            /\ SuppliesCredentialHeader(q) /\ Unresolved(q)) =>
            /\ Len(inv[p].res) = 1
            /\ inv[p].res[1].status = 401
            /\ inv[p].res = inv[q].res

(* C13, amended: any two requests that supply a credential the handler      *)
(* takes as one (a non-empty x-user-id, or "Bearer " and a non-empty token) *)
(* and end with no resolved user receive the same status 401 and the same   *)
(* invalid-credentials body, whatever id or token each supplied; a request  *)
(* whose Authorization header lacks the prefix "Bearer " or has nothing     *)
(* after it receives the other 401 body, missing-credentials.               *)
C13_InvalidAuthDoesNotLeak ==
    /\ \A p, q \in Invocations :
        (SuppliesCredential(p) /\ Unresolved(p)
            /\ SuppliesCredential(q) /\ Unresolved(q)) =>
            /\ inv[p].res = <<InvalidAuth>>
            /\ inv[p].res = inv[q].res
    /\ \A p \in Invocations :
          (SuppliesCredentialHeader(p) /\ ~SuppliesCredential(p) /\ Unresolved(p)) =>
              inv[p].res = <<MissingAuth>>

\* Two requests with different tokens, one the token of no user and one the
\* token of a user that was never created, were both rejected.
C13_Witness ==
    \E p, q \in Invocations :
        /\ BeginsWithBearer(p) /\ BeginsWithBearer(q)
        /\ Remainder(p) = TokA /\ Remainder(q) = TokB
        /\ Unresolved(p) /\ Unresolved(q)
        /\ inv[p].res = inv[q].res

-----------------------------------------------------------------------------
IsPrefix(s, t) == Len(s) <= Len(t) /\ SubSeq(t, 1, Len(s)) = s

\* The operations of a whole invocation, in order: schema, then one of the
\* ways of resolving the user, then the profile.
Sequences ==
    { BootstrapOps,
      BootstrapOps \o <<"lookupId", "fetchProfile">>,
      BootstrapOps \o <<"lookupId", "insert", "refetch", "fetchProfile">>,
      BootstrapOps \o <<"lookupToken", "fetchProfile">> }

(* C14: the operations of one invocation are strictly sequential, schema,   *)
(* then authentication, then profile, with an exit to a response from any   *)
(* state.  The operations issued are always a beginning of one of the four  *)
(* sequences above and the one awaited is the last issued; a lookup or the  *)
(* INSERT is issued only when the bootstrap has completed without failure   *)
(* (client released, both tables present); the profile fetch is issued only *)
(* with a resolved user; and once a response is sent the invocation is over *)
(* and awaits nothing.                                                      *)
C14_StrictSequence ==
    \A p \in Invocations :
        /\ \E t \in Sequences : IsPrefix(inv[p].ops, t)
        /\ inv[p].pc \in StoreOps => inv[p].ops[Len(inv[p].ops)] = inv[p].pc
        /\ inv[p].pc = "idle" <=> inv[p].ops = <<>>
        /\ Len(inv[p].ops) > Len(BootstrapOps) =>
              /\ HasRequest(p)
              /\ inv[p].held = 0 /\ inv[p].released = 1
              /\ {"users", "profiles"} \subseteq tables
              /\ Failed(p) => Val(inv[p].failure).at > Len(BootstrapOps)
        /\ Issued(p, "fetchProfile") => inv[p].user # Null
        /\ Len(inv[p].res) > 0 => Done(p)
        /\ Done(p) => Len(inv[p].res) > 0

\* An invocation went through its longest sequence and responded, while
\* another left from the bootstrap with an error.
C14_Witness ==
    \E p, q \in Invocations :
        /\ inv[p].ops = BootstrapOps \o <<"lookupId", "insert", "refetch", "fetchProfile">>
        /\ Done(p) /\ ~Failed(p)
        /\ Done(q) /\ Failed(q) /\ FailedOp(q) = "createUsers"

-----------------------------------------------------------------------------
\* The request carries a non-empty x-user-id and Authorization: Bearer T
\* with a non-empty T.
BothCredentials(p) ==
    /\ DevRequest(p)
    /\ Authorization(p) # Null
    /\ \A i \in 1..7 :
          /\ Len(Val(Authorization(p))) >= i
          /\ Val(Authorization(p))[i] = BearerPrefix[i]
    /\ Len(Val(Authorization(p))) > 7

(* C15: the first match wins.  A request with a non-empty x-user-id and     *)
(* Authorization: Bearer T is resolved, and provisioned if unseen, by the   *)
(* x-user-id alone: no lookup by token is issued, the user resolved has the *)
(* id of the x-user-id whether T is the token of another user or of none,   *)
(* and, without a store failure, the response is 200 and the same as that   *)
(* to a request with that x-user-id and no Authorization header.            *)
C15_DevIdentifierWins ==
    \A p \in Invocations :
        BothCredentials(p) =>
            /\ ~Issued(p, "lookupToken")
            /\ Len(inv[p].ops) > Len(BootstrapOps) /\ inv[p].ops[4] = "lookupId"
            /\ inv[p].user # Null => Val(inv[p].user).id = Val(XUserId(p))
            /\ (Done(p) /\ ~Failed(p)) =>
                  /\ Len(inv[p].res) = 1
                  /\ inv[p].res[1].status = 200
                  /\ inv[p].res[1].body.user \in
                         {Some(u) : u \in RowsWithId(Val(XUserId(p)))}
            /\ \A q \in Invocations :
                  (DevRequest(q) /\ Authorization(q) = Null
                      /\ XUserId(q) = XUserId(p)
                      /\ Done(p) /\ Done(q) /\ ~Failed(p) /\ ~Failed(q)) =>
                      inv[p].res = inv[q].res

\* Requests for u2, with the token of the existing user u1 and without a
\* token, both provisioned u2 and received the same response.
C15_Witness ==
    \E p, q \in Invocations :
        /\ BothCredentials(p)
        /\ DevRequest(q) /\ Authorization(q) = Null
        /\ XUserId(q) = XUserId(p)
        /\ RowsWithToken(TokA) # {}
        /\ \A u \in RowsWithToken(TokA) : u.id # Val(XUserId(p))
        /\ Issued(p, "insert")
        /\ Done(p) /\ Done(q) /\ ~Failed(p) /\ ~Failed(q)
        /\ inv[p].res = inv[q].res
        /\ inv[p].res[1].status = 200

-----------------------------------------------------------------------------
(* C16: the bootstrap creates users before profiles.  In every reachable    *)
(* state, however bootstraps interleave and also when one fails between its *)
(* two statements, profiles exists only if users exists; and once           *)
(* ensureSchema has returned normally to an invocation both tables exist.   *)
C16_UsersBeforeProfiles ==
    /\ "profiles" \in tables => "users" \in tables
    /\ \A p \in Invocations :
          (HasRequest(p) \/ Len(inv[p].ops) > Len(BootstrapOps)) =>
              {"users", "profiles"} \subseteq tables
    /\ \A p \in Invocations :
          inv[p].pc = "createProfiles" => "users" \in tables

\* A bootstrap created users and failed on its second statement: users
\* exists without profiles, while another bootstrap is under way.
C16_Witness ==
    \E p, q \in Invocations :
        /\ Failed(p) /\ FailedOp(p) = "createProfiles"
        /\ inv[p].wrote
        /\ tables = {"users"}
        /\ inv[q].pc = "createUsers"

-----------------------------------------------------------------------------
\* One Pool at most, held by global.__pgPool and used by every instance of
\* the module and every invocation.
C17_PoolShared ==
    /\ poolsCreated <= 1
    /\ (globalPool = Null) = (poolsCreated = 0)
    /\ \A m \in 1..Len(pool) : Some(pool[m]) = globalPool
    /\ \A p \in Invocations : inv[p].pc # "idle" => inv[p].pool = globalPool

\* Once set, global.__pgPool keeps its value.
C17_PoolNeverReplaced ==
    [][globalPool # Null => globalPool' = globalPool]_vars

(* C17: the connection pool is constructed at most once per process.        *)
(* However many times the module is loaded and however the invocations      *)
(* interleave with the loads, at most one Pool object is constructed, every *)
(* loaded instance of the module and every invocation uses the Pool held by *)
(* global.__pgPool, and once set global.__pgPool is never replaced or       *)
(* cleared.                                                                 *)
C17_OnePoolPerProcess == []C17_PoolShared /\ C17_PoolNeverReplaced

\* The module has been loaded twice and two invocations are in flight
\* together, both on the one Pool.
C17_Witness ==
    /\ Len(pool) = 2
    /\ poolsCreated = 1
    /\ \E p, q \in Invocations :
          /\ p # q
          /\ inv[p].pc \notin {"idle", "done"}
          /\ inv[q].pc \notin {"idle", "done"}
          /\ inv[p].pool = Some(pool[1])
          /\ inv[q].pool = Some(pool[2])

-----------------------------------------------------------------------------
\* The statuses the handler sends (lines 85, 89, 95, 102).
Statuses == {200, 401, 500}

\* An invocation has ended exactly when it has sent its one response.
C18_OneResponse ==
    \A p \in Invocations :
        /\ Len(inv[p].res) <= 1
        /\ Done(p) <=> Len(inv[p].res) = 1
        /\ \A i \in 1..Len(inv[p].res) : inv[p].res[i].status \in Statuses

\* An invocation that has responded takes no further step.
C18_NoSecondResponse ==
    [][\A p \in Invocations : Len(inv[p].res) = 1 => inv'[p] = inv[p]]_vars

\* A started invocation eventually responds.
C18_EventuallyResponds ==
    \A p \in Invocations : (inv[p].pc # "idle") ~> (Len(inv[p].res) = 1)

(* C18: every invocation of the handler ends with exactly one response.     *)
(* Provided every awaited store operation eventually completes or fails, a  *)
(* started invocation eventually sends a response; the response is one of   *)
(* 200, 401, 500; an invocation has ended exactly when it has sent one      *)
(* response, and it sends nothing after it.                                 *)
C18_ExactlyOneResponse ==
    /\ []C18_OneResponse
    /\ C18_NoSecondResponse
    /\ C18_EventuallyResponds

\* Every invocation has ended, one with a 200 after its store operations
\* completed and another with a 500 after one failed.
C18_Witness ==
    /\ \A p \in Invocations : Done(p) /\ Len(inv[p].res) = 1
    /\ \E p, q \in Invocations :
          /\ inv[p].res[1].status = 200 /\ ~Failed(p)
          /\ inv[q].res[1].status = 500 /\ Failed(q)

-----------------------------------------------------------------------------
\* Invocation p answered 200.
Answered200(p) ==
    Done(p) /\ Len(inv[p].res) = 1 /\ inv[p].res[1].status = 200

(* C19: the user in every 200 response is the one the credential names.     *)
(* On the dev-mode path the user's id is the value of x-user-id; otherwise  *)
(* the request carried a Bearer authorization and the user's token is the   *)
(* remainder of the header exactly, so never null; and a profile in the     *)
(* response has the user's id as its user_id.                               *)
C19_UserIsTheOneNamed ==
    \A p \in Invocations :
        Answered200(p) =>
            LET body == inv[p].res[1].body
            IN  /\ body.user # Null
                /\ DevRequest(p) => Val(body.user).id = Val(XUserId(p))
                /\ ~DevRequest(p) =>
                      /\ BeginsWithBearer(p)
                      /\ Val(body.user).token # Null
                      /\ Val(body.user).token = Some(Remainder(p))
                /\ body.profile # Null =>
                      Val(body.profile).user_id = Val(body.user).id

\* While users holds a row whose token is null, one invocation was answered
\* 200 on the bearer path and another on the dev-mode path, each with the
\* profile of its user.
C19_Witness ==
    /\ \E u \in users : u.token = Null
    /\ \E p, q \in Invocations :
          /\ Answered200(p) /\ BeginsWithBearer(p)
          /\ inv[p].res[1].body.profile # Null
          /\ Answered200(q) /\ DevRequest(q)
          /\ inv[q].res[1].body.profile # Null
          /\ Val(inv[q].res[1].body.user).id # Val(inv[p].res[1].body.user).id

====
